---------------------------- MODULE Spec2Model ----------------------------
(* A model of src/bot.py: the per-user conversation handlers, the paste    *)
(* fallback of get_code, the click-gated page script emitted by            *)
(* generate_html_code, the face-aware badge placement and generate_image.  *)
(*                                                                         *)
(* Texts are tuples of one-character strings, so that str.startswith and   *)
(* str.encode are computed and not assumed.  A dict key that is missing is *)
(* the value Absent, Python's None is the value None.                      *)
EXTENDS Integers, Sequences, FiniteSets, TLC

VARIABLES
    user_conversations,  \* dict uid -> session record (DOMAIN = the uids with a session)
    user_ad_links,       \* dict uid -> list of ad links (DOMAIN = the uids with an entry)
    out,                 \* what the last handler run answered
    page,                \* the generated page: AD_LINKS and its download buttons
    badge,               \* one apply_badge_to_poster call: inputs and result
    image,               \* one generate_image call: inputs and result
    flight,              \* the handler tasks in flight and the objects they refer to
    lists                \* the module-level lists DEFAULT_AD_LINKS and OWNER_AD_LINKS

vars == <<user_conversations, user_ad_links, out, page, badge, image, flight, lists>>

-----------------------------------------------------------------------------
(* Bounds *)

MaxLinks == 2      \* download links added to one session
MaxFaces == 2      \* faces in one detection result
MaxCells == 6      \* poster heights and face rows lie on a 50 px grid of this many cells
MaxButtons == 2    \* download buttons on one generated page
MaxInFlight == 2   \* messages of one user handled at once
MaxFinalizations == 2  \* finalizations of one session object
MaxOverview == 570 \* characters of an overview

-----------------------------------------------------------------------------
(* Values *)

Absent == <<"ABSENT">>
None == <<"NONE">>

\* Python truthiness of an optional text: a missing key (dict.get), None and "" are falsy.
Truthy(v) == v \notin {Absent, None, <<>>}

\* str.startswith
StartsWith(s, prefix) ==
    /\ Len(s) >= Len(prefix)
    /\ SubSeq(s, 1, Len(prefix)) = prefix

Http == <<"h", "t", "t", "p">>

Users == {1, 2}
\* The users who send commands and replies, and whose uid the buttons carry;
\* every user presses buttons.
Posters == {1}

OWNER_AD_LINKS == << <<"h","t","t","p","s",":","o","1">>,
                     <<"h","t","t","p","s",":","o","2">>,
                     <<"h","t","t","p","s",":","o","3">> >>

DEFAULT_AD_LINKS == << <<"h","t","t","p","s",":","g">>,
                       <<"h","t","t","p","s",":","b">> >>

\* The two module-level lists as Python holds them: list objects, which a
\* statement can change in place.
StoredLists == [DEFAULT_AD_LINKS |-> DEFAULT_AD_LINKS, OWNER_AD_LINKS |-> OWNER_AD_LINKS]


-----------------------------------------------------------------------------
(* Images.  Decoded image content is abstracted to what the code reads:    *)
(* whether the bytes decode, the size, the faces the cascade reports on    *)
(* it, and the badge box drawn on it (none, or one).                       *)

Face(y, h) == [y |-> y, h |-> h]

ImageBytes(decodable, width, height, faces) ==
    [decodable |-> decodable, width |-> width, height |-> height,
     faces |-> faces, box |-> <<>>]

NoBytes == ImageBytes(FALSE, 0, 0, <<>>)

\* The loop of get_smart_badge_position over the detected faces, from face i on.
RECURSIVE LowestFaceBottom(_, _, _)
LowestFaceBottom(faces, i, lowest_y) ==
    IF i > Len(faces) THEN lowest_y
    ELSE LET bottom_of_face == faces[i].y + faces[i].h
         IN  LowestFaceBottom(faces, i + 1,
                 IF bottom_of_face > lowest_y THEN bottom_of_face ELSE lowest_y)

\* int(height * 0.40): the float product truncated, which is floor(4*height/10).
ProportionalOffset(height) == (height * 4) \div 10

\* A bug the largest-face or first-face choice would make: the first face only.
GetSmartBadgePosition_FirstFace(pil_img, env) ==
    IF env.fail = "convert" THEN 200
    ELSE IF ~env.model_exists THEN ProportionalOffset(pil_img.height)
    ELSE IF env.fail = "detect" THEN 200
    ELSE IF Len(pil_img.faces) > 0
         THEN LET target_y == pil_img.faces[1].y + pil_img.faces[1].h + 40
              IN  IF target_y > pil_img.height - 130 THEN 80 ELSE target_y
         ELSE ProportionalOffset(pil_img.height)

\* A bug that answers the exception path's constant for a missing model file too.
GetSmartBadgePosition_ConstantOnMissingModel(pil_img, env) ==
    IF env.fail = "convert" THEN 200
    ELSE IF ~env.model_exists THEN 200
    ELSE IF env.fail = "detect" THEN 200
    ELSE IF Len(pil_img.faces) > 0
         THEN LET target_y == LowestFaceBottom(pil_img.faces, 1, 0) + 40
              IN  IF target_y > pil_img.height - 130 THEN 80 ELSE target_y
         ELSE ProportionalOffset(pil_img.height)

\* get_smart_badge_position.  env.fail names the call that raises: "convert"
\* (cv2.cvtColor, before the model file is looked for), "detect" (the classifier,
\* after it), or "none".
GetSmartBadgePosition(pil_img, env) ==
    IF env.fail = "convert" THEN 200
    ELSE IF ~env.model_exists THEN ProportionalOffset(pil_img.height)
    ELSE IF env.fail = "detect" THEN 200
    ELSE IF Len(pil_img.faces) > 0
         THEN LET target_y == LowestFaceBottom(pil_img.faces, 1, 0) + 40
              IN  IF target_y > pil_img.height - 130 THEN 80 ELSE target_y
         ELSE ProportionalOffset(pil_img.height)

\* apply_badge_to_poster: the poster with the badge box drawn, or the bytes it was
\* given when anything raises (here: the bytes do not decode).
ApplyBadgeToPoster(poster_bytes, text, env) ==
    IF ~poster_bytes.decodable THEN poster_bytes
    ELSE LET pos_y == GetSmartBadgePosition(poster_bytes, env)
             box_w == env.text_w + (40 * 2)
             box_h == env.text_h + (20 * 2)
             pos_x == (poster_bytes.width - box_w) \div 2
         IN  [poster_bytes EXCEPT !.box =
                 << [x0 |-> pos_x, y0 |-> pos_y,
                     x1 |-> pos_x + box_w, y1 |-> pos_y + box_h] >>]

-----------------------------------------------------------------------------
(* generate_image *)

Min(a, b) == IF a < b THEN a ELSE b

\* A bug that drops a last line shorter than 80 characters.
SynopsisLines_DropsPartial(overview) ==
    LET slices == [k \in 1..(Len(overview) \div 80) |->
                      SubSeq(overview, 80 * (k - 1) + 1, 80 * k)]
    IN  SubSeq(slices, 1, Min(6, Len(slices)))

\* [overview[i:i+80] for i in range(0, len(overview), 80)][:6]
SynopsisLines(overview) ==
    LET slices == [k \in 1..((Len(overview) + 79) \div 80) |->
                      SubSeq(overview, 80 * (k - 1) + 1, Min(80 * k, Len(overview)))]
    IN  SubSeq(slices, 1, Min(6, Len(slices)))

NoCanvas == [background |-> "none", poster |-> NoBytes, lines |-> <<>>]

ImageResult(img_io, canvas, poster_bytes) ==
    [img_io |-> img_io, canvas |-> canvas, poster_bytes |-> poster_bytes]

\* return None, None
NoImage == ImageResult(FALSE, NoCanvas, NoBytes)

\* A bug that lets an undecodable backdrop fail the whole composite.
GenerateImage_StrictBackdrop(data, env) ==
    IF data.kind # "dict" THEN NoImage
    ELSE IF ~Truthy(data.manual_poster_url) /\ ~Truthy(data.poster_path) THEN NoImage
    ELSE IF env.poster_fetch = "error" THEN NoImage
    ELSE LET poster_bytes ==
                 IF Truthy(data.badge_text)
                 THEN ApplyBadgeToPoster(env.poster, data.badge_text, env.badge_env)
                 ELSE env.poster
         IN  IF ~poster_bytes.decodable THEN NoImage
             ELSE IF Truthy(data.backdrop_path) /\ ~data.is_manual
                     /\ ~(env.backdrop_fetch = "ok" /\ env.backdrop_decodable)
                  THEN NoImage
                  ELSE ImageResult(TRUE,
                           [background |->
                                IF Truthy(data.backdrop_path) /\ ~data.is_manual
                                THEN "backdrop" ELSE "poster",
                            poster |-> poster_bytes,
                            lines |-> SynopsisLines(
                                IF data.overview = Absent THEN <<>> ELSE data.overview)],
                           poster_bytes)

\* generate_image(data).  env holds what the network and the decoder answer:
\* poster_fetch "error" is requests.get raising; env.poster are the bytes
\* received (an error page is bytes that do not decode); the backdrop likewise.
\* A details object that is no dict (data.kind) raises at data.get, inside the try.
GenerateImage(data, env) ==
    IF data.kind # "dict" THEN NoImage
    ELSE IF ~Truthy(data.manual_poster_url) /\ ~Truthy(data.poster_path) THEN NoImage
    ELSE IF env.poster_fetch = "error" THEN NoImage
    ELSE LET poster_bytes ==
                 IF Truthy(data.badge_text)
                 THEN ApplyBadgeToPoster(env.poster, data.badge_text, env.badge_env)
                 ELSE env.poster
             backdrop_ok ==
                 /\ Truthy(data.backdrop_path)
                 /\ ~data.is_manual
                 /\ env.backdrop_fetch = "ok"
                 /\ env.backdrop_decodable
         IN  IF ~poster_bytes.decodable THEN NoImage
             ELSE ImageResult(TRUE,
                      [background |-> IF backdrop_ok THEN "backdrop" ELSE "poster",
                       poster |-> poster_bytes,
                       lines |-> SynopsisLines(
                           IF data.overview = Absent THEN <<>> ELSE data.overview)],
                      poster_bytes)

-----------------------------------------------------------------------------
(* Media records (the "details" dict of a session, the data of generate_image) *)

Details(is_manual, title, overview, poster_path, backdrop_path) ==
    [kind |-> "dict", is_manual |-> is_manual, title |-> title,
     overview |-> overview, poster_path |-> poster_path,
     backdrop_path |-> backdrop_path, manual_poster_url |-> Absent,
     custom_language |-> Absent, custom_quality |-> Absent,
     badge_text |-> Absent]

\* {"is_manual": True}
ManualDetails == Details(TRUE, Absent, Absent, Absent, Absent)

\* A 200 answer that is not JSON: fetch_url returns the raw bytes, which the
\* callers store as "details" although it is no dict.
BytesDetails == [Details(FALSE, Absent, Absent, Absent, Absent) EXCEPT !.kind = "bytes"]

PosterPath == <<"/", "p">>
BackdropPath == <<"/", "b">>
TmdbTitle == <<"T">>
TmdbOverview == <<"o", "v">>
CatboxUrl == <<"h","t","t","p","s",":","c">>
BadgeText == <<"H", "i">>

-----------------------------------------------------------------------------
(* Idle values of the variables a specification does not use *)

BadgeEnv(fail, model_exists, text_w, text_h) ==
    [fail |-> fail, model_exists |-> model_exists, text_w |-> text_w, text_h |-> text_h]

ImageEnv(poster_fetch, poster, backdrop_fetch, backdrop_decodable, badge_env) ==
    [poster_fetch |-> poster_fetch, poster |-> poster,
     backdrop_fetch |-> backdrop_fetch, backdrop_decodable |-> backdrop_decodable,
     badge_env |-> badge_env]

IdleBadge == [img |-> NoBytes, env |-> BadgeEnv("none", TRUE, 0, 0),
              pos |-> -1, drawn |-> FALSE, result |-> NoBytes]

IdleImage == [data |-> ManualDetails,
              env |-> ImageEnv("ok", NoBytes, "ok", FALSE, BadgeEnv("none", TRUE, 0, 0)),
              called |-> FALSE, result |-> NoImage]

IdlePage == [AD_LINKS |-> <<>>, buttons |-> <<>>]

\* What a handler run shows: its reply, whether an exception escaped it, the
\* network answer it met, the texts it showed and the file it attached; input
\* is the argument list of the command it ran for.
NoOut == [handler |-> "none", user |-> 0, target |-> 0, reply |-> "none",
          raised |-> FALSE, net |-> "ok", answer |-> None, shown |-> <<>>, doc |-> <<>>,
          input |-> <<>>]

EmptyDict == [u \in {} |-> <<>>]

IdleFlight == [limit |-> 1, heap |-> EmptyDict, count |-> EmptyDict, tasks |-> <<>>,
               orphaned |-> FALSE, twice |-> FALSE]

-----------------------------------------------------------------------------
(* Specification SpecBadge: get_smart_badge_position and apply_badge_to_poster *)
(* on every poster and detection result of the grid.                         *)

SeqsUpTo(S, n) == UNION {[1..k -> S] : k \in 0..n}

PosterHeights == {50 * k + d : k \in 2..MaxCells, d \in {0, 20}}

\* The faces a detection can report inside a poster of this height.
FacesIn(height) ==
    {f \in {Face(50 * i, h) : i \in 0..MaxCells, h \in {50, 100}} : f.y + f.h <= height}

BadgeEnvs ==
    {BadgeEnv(fail, m, 120, 50) : fail \in {"none", "convert", "detect"}, m \in BOOLEAN}

InitBadge ==
    /\ user_conversations = EmptyDict
    /\ user_ad_links = EmptyDict
    /\ out = NoOut
    /\ flight = IdleFlight
    /\ lists = StoredLists
    /\ page = IdlePage
    /\ image = IdleImage
    /\ \E height \in PosterHeights, decodable \in BOOLEAN, env \in BadgeEnvs :
         \E faces \in SeqsUpTo(FacesIn(height), MaxFaces) :
            badge = [IdleBadge EXCEPT
                        !.img = ImageBytes(decodable, 200, height, faces),
                        !.env = env]

\* get_smart_badge_position(pil_img) on the decoded poster
CallGetSmartBadgePosition ==
    /\ badge.img.decodable
    /\ badge.pos = -1
    /\ badge' = [badge EXCEPT !.pos = GetSmartBadgePosition(badge.img, badge.env)]
    /\ UNCHANGED <<user_conversations, user_ad_links, out, page, image, flight, lists>>

\* apply_badge_to_poster(poster_bytes, text)
CallApplyBadgeToPoster ==
    /\ ~badge.drawn
    /\ badge' = [badge EXCEPT !.drawn = TRUE,
                              !.result = ApplyBadgeToPoster(badge.img, BadgeText, badge.env)]
    /\ UNCHANGED <<user_conversations, user_ad_links, out, page, image, flight, lists>>

NextBadge == CallGetSmartBadgePosition \/ CallApplyBadgeToPoster

SpecBadge == InitBadge /\ [][NextBadge]_vars

-----------------------------------------------------------------------------
(* Specification SpecImage: generate_image on every record and every answer  *)
(* of the network and the decoder.                                           *)

ImageRecords ==
    {[Details(m, TmdbTitle, ov, pp, bp) EXCEPT !.manual_poster_url = mu, !.badge_text = bt] :
        m \in BOOLEAN, ov \in {Absent, <<>>, TmdbOverview},
        pp \in {Absent, PosterPath}, bp \in {Absent, None, BackdropPath},
        mu \in {Absent, CatboxUrl}, bt \in {Absent, None, <<>>, BadgeText}}

ImageEnvs ==
    {ImageEnv(pf, ImageBytes(pd, 200, 250, <<Face(50, 100)>>), bf, bd,
              BadgeEnv("none", TRUE, 120, 50)) :
        pf \in {"ok", "error"}, pd \in BOOLEAN, bf \in {"ok", "error"}, bd \in BOOLEAN}

InitImage ==
    /\ user_conversations = EmptyDict
    /\ user_ad_links = EmptyDict
    /\ out = NoOut
    /\ flight = IdleFlight
    /\ lists = StoredLists
    /\ page = IdlePage
    /\ badge = IdleBadge
    /\ \E data \in ImageRecords, env \in ImageEnvs :
          image = [IdleImage EXCEPT !.data = data, !.env = env]

\* generate_image(data)
CallGenerateImage ==
    /\ ~image.called
    /\ image' = [image EXCEPT !.called = TRUE,
                              !.result = GenerateImage(image.data, image.env)]
    /\ UNCHANGED <<user_conversations, user_ad_links, out, page, badge, flight, lists>>

NextImage == CallGenerateImage

SpecImage == InitImage /\ [][NextImage]_vars

-----------------------------------------------------------------------------
(* Specification SpecSynopsis: generate_image on overviews of every length.  *)

OverviewChars == <<"a", "b", "c", "d", "e", "f", "g">>

\* An overview of the given length whose 80-character slices all differ
OverviewOf(length) ==
    [i \in 1..length |-> OverviewChars[((i - 1) % Len(OverviewChars)) + 1]]

InitSynopsis ==
    /\ user_conversations = EmptyDict
    /\ user_ad_links = EmptyDict
    /\ out = NoOut
    /\ flight = IdleFlight
    /\ lists = StoredLists
    /\ page = IdlePage
    /\ badge = IdleBadge
    /\ \E length \in 0..MaxOverview, missing \in BOOLEAN :
          image = [IdleImage EXCEPT
                      !.data = Details(FALSE, TmdbTitle,
                                       IF missing /\ length = 0 THEN Absent
                                       ELSE OverviewOf(length),
                                       PosterPath, BackdropPath),
                      !.env = ImageEnv("ok", ImageBytes(TRUE, 200, 250, <<Face(50, 100)>>),
                                       "ok", TRUE, BadgeEnv("none", TRUE, 120, 50))]

SpecSynopsis == InitSynopsis /\ [][NextImage]_vars

-----------------------------------------------------------------------------
(* HTTP helpers *)

\* What a GET can meet.  fetch_url returns the parsed dict for "json"; the raw
\* bytes for "not_json" (status 200 with another Content-Type); None for a
\* timeout (the except branch), a status other than 200 (falls through) and a
\* JSON body that does not parse (resp.json() raises into the except branch).
GetAnswers == {"json", "not_json", "timeout", "non200", "malformed_json"}

NetworkFailures == {"timeout", "non200", "malformed_json"}

\* fetch_url(url): the kind of value returned
FetchUrlGet(answer) ==
    IF answer = "json" THEN "dict"
    ELSE IF answer = "not_json" THEN "bytes"
    ELSE "None"

\* What a GET met, for the record of the handler run
NetOf(answer) ==
    IF answer = "json" THEN "ok"
    ELSE IF answer \in NetworkFailures THEN "network_failure"
    ELSE answer

\* fetch_url(url, method="POST"): the body text at any status, None when the
\* request raises.  A POST answer is None or a text (tuple of tokens).
FetchUrlPost(answer) == answer

\* "dpaste.com" in link
ContainsToken(text, token) == \E i \in DOMAIN text : text[i] = token

Whitespace == {" ", "\n"}

\* str.strip()
RECURSIVE Strip(_)
Strip(text) ==
    IF text = <<>> THEN text
    ELSE IF Head(text) \in Whitespace THEN Strip(Tail(text))
    ELSE IF text[Len(text)] \in Whitespace THEN Strip(SubSeq(text, 1, Len(text) - 1))
    ELSE text

\* create_paste_link(content)
CreatePasteLink(content, answer) ==
    IF content = <<>> THEN None
    ELSE LET link == FetchUrlPost(answer)
         IN  IF Truthy(link) /\ ContainsToken(link, "dpaste.com")
             THEN Strip(link) ELSE None

\* search_tmdb(query): the hits of kind movie or tv, at most 15; [] when the
\* fetch gives None and when it gives bytes (data.get raises inside the try).
SearchTmdb(answer, hits) ==
    IF FetchUrlGet(answer) # "dict" THEN <<>>
    ELSE LET kept == SelectSeq(hits, LAMBDA r : r.media_type \in {"movie", "tv"})
         IN  SubSeq(kept, 1, Min(15, Len(kept)))

\* extract_tmdb_id(text): a themoviedb.org link wins over an IMDb id.
ExtractTmdbId(query) ==
    IF query.tmdb # "none" THEN query.tmdb
    ELSE IF query.imdb THEN "imdb"
    ELSE "None"

-----------------------------------------------------------------------------
(* str.encode(): UTF-8 *)

\* ord()
Ord(c) ==
    CASE c = "E_ACUTE" -> 233          \* U+00E9
      [] c = "BN_DA" -> 2465           \* U+09A1, of the rules box
      [] c = "EMOJI_FOLDER" -> 128194  \* U+1F4C2, of every download item
      [] OTHER ->
           ("<" :> 60 @@ "/" :> 47 @@ ":" :> 58 @@ "1" :> 49 @@ "2" :> 50 @@ "3" :> 51
            @@ "A" :> 65 @@ "H" :> 72 @@ "N" :> 78 @@ "T" :> 84 @@ "W" :> 87 @@ "a" :> 97
            @@ "b" :> 98 @@ "c" :> 99 @@ "e" :> 101 @@ "g" :> 103 @@ "h" :> 104 @@ "i" :> 105
            @@ "n" :> 110 @@ "o" :> 111 @@ "p" :> 112 @@ "s" :> 115 @@ "t" :> 116 @@ "v" :> 118
            @@ "w" :> 119)[c]

Utf8(cp) ==
    IF cp < 128 THEN <<cp>>
    ELSE IF cp < 2048 THEN <<192 + (cp \div 64), 128 + (cp % 64)>>
    ELSE IF cp < 65536
         THEN <<224 + (cp \div 4096), 128 + ((cp \div 64) % 64), 128 + (cp % 64)>>
         ELSE <<240 + (cp \div 262144), 128 + ((cp \div 4096) % 64),
                128 + ((cp \div 64) % 64), 128 + (cp % 64)>>

RECURSIVE Encode(_)
Encode(text) ==
    IF text = <<>> THEN <<>> ELSE Utf8(Ord(Head(text))) \o Encode(Tail(text))

-----------------------------------------------------------------------------
(* generate_html_code *)

RECURSIVE Flatten(_)
Flatten(texts) == IF texts = <<>> THEN <<>> ELSE Head(texts) \o Flatten(Tail(texts))

\* str() of an optional text inside an f-string: None for a missing value
PyStr(v) == IF v \in {Absent, None} THEN <<"N", "o", "n", "e">> ELSE v

\* A bug that inserts into the list it was given instead of a copy of it.
InjectOwner_InPlace(ad_links_list, owner) ==
    LET inserted == IF Len(lists.OWNER_AD_LINKS) > 0
                    THEN <<lists.OWNER_AD_LINKS[owner]>> \o ad_links_list
                    ELSE ad_links_list
    IN  [final_ad_list |-> inserted, ad_links_list |-> inserted]

\* final_ad_list = list(ad_links_list); final_ad_list.insert(0, random.choice(
\* OWNER_AD_LINKS)): the new list, and the list object passed in as the
\* statements leave it.
InjectOwner(ad_links_list, owner) ==
    [final_ad_list |-> IF Len(lists.OWNER_AD_LINKS) > 0
                       THEN <<lists.OWNER_AD_LINKS[owner]>> \o ad_links_list
                       ELSE ad_links_list,
     ad_links_list |-> ad_links_list]

\* generate_html_code(data, links, ad_links_list); owner is the index
\* random.choice draws.  The result keeps what varies in the f-string: the
\* poster, title, overview, one download item per link, and the AD_LINKS array.
GenerateHtmlCode(data, links, ad_links_list, owner) ==
    [title |-> IF Truthy(data.title) THEN data.title ELSE PyStr(None),
     overview |-> IF data.overview = Absent THEN <<>> ELSE data.overview,
     poster |-> IF Truthy(data.manual_poster_url) THEN data.manual_poster_url
                ELSE <<"t">> \o PyStr(data.poster_path),
     links |-> [i \in DOMAIN links |-> [label |-> links[i].label, url |-> links[i].url]],
     AD_LINKS |-> InjectOwner(ad_links_list, owner).final_ad_list]

\* The characters of the returned string: of the fixed template one character of
\* each UTF-8 width it holds ("<", the Bengali rules box, the folder emoji of a
\* download item), around the interpolated values.
HtmlText(html) ==
    <<"<">> \o html.poster \o html.title \o html.overview \o <<"BN_DA">>
    \o Flatten([i \in DOMAIN html.links |->
                   <<"EMOJI_FOLDER">> \o html.links[i].label \o html.links[i].url])
    \o Flatten(html.AD_LINKS)

-----------------------------------------------------------------------------
(* Sessions *)

\* The steps whose order of first entry a session remembers
TrackedStates == {"wait_lang", "wait_quality", "ask_links"}

\* {"details": details, "links": [], "state": state}; temp_name and final are
\* keys added later; visited lists the tracked states the session has been in,
\* in the order it first entered them.
Session(details, state) ==
    [details |-> details, links |-> <<>>, state |-> state,
     temp_name |-> Absent, final |-> <<>>,
     visited |-> IF state \in TrackedStates THEN <<state>> ELSE <<>>]

\* convo["state"] = state
Enter(convo, state) ==
    [convo EXCEPT !.state = state,
                  !.visited = IF state \notin TrackedStates
                                 \/ \E i \in DOMAIN @ : @[i] = state
                              THEN @ ELSE Append(@, state)]

HasSession(uid) == uid \in DOMAIN user_conversations

\* user_conversations[uid] = convo
Store(uid, convo) ==
    [u \in DOMAIN user_conversations \cup {uid} |->
        IF u = uid THEN convo ELSE user_conversations[u]]

\* user_conversations.pop(uid, None)
Pop(uid) == [u \in DOMAIN user_conversations \ {uid} |-> user_conversations[u]]

\* user_ad_links.get(uid, DEFAULT_AD_LINKS)
AdLinksOf(uid) ==
    IF uid \in DOMAIN user_ad_links THEN user_ad_links[uid] ELSE lists.DEFAULT_AD_LINKS

Out(handler, user, target, reply) ==
    [NoOut EXCEPT !.handler = handler, !.user = user, !.target = target, !.reply = reply]

-----------------------------------------------------------------------------
(* Commands *)

\* /start
StartCmd(u) ==
    /\ user_conversations' = Pop(u)
    /\ out' = Out("start_cmd", u, u, "help")
    /\ UNCHANGED <<user_ad_links, page, badge, image, flight, lists>>

\* /mysettings
MySettingsCmd(u) ==
    /\ out' = [Out("mysettings_cmd", u, u, "my_settings") EXCEPT !.shown = AdLinksOf(u)]
    /\ UNCHANGED <<user_conversations, user_ad_links, page, badge, image, flight, lists>>

\* A bug that keeps the old entry when the settings file cannot be written.
SetAd_KeepsOldOnSaveError(u, tokens, save_ok) ==
    LET valid_links == SelectSeq(tokens, LAMBDA l : StartsWith(l, Http))
    IN  /\ IF Len(tokens) > 0 /\ Len(valid_links) > 0
           THEN /\ user_ad_links' =
                      IF save_ok
                      THEN [v \in DOMAIN user_ad_links \cup {u} |->
                               IF v = u THEN valid_links ELSE user_ad_links[v]]
                      ELSE user_ad_links
                /\ out' = [Out("set_ad", u, u, "ad_links_saved") EXCEPT
                              !.shown = valid_links,
                              !.input = tokens,
                              !.net = IF save_ok THEN "ok" ELSE "save_error"]
           ELSE /\ UNCHANGED user_ad_links
                /\ out' = [Out("set_ad", u, u,
                               IF Len(tokens) > 0 THEN "invalid_links" ELSE "usage")
                           EXCEPT !.input = tokens]
        /\ UNCHANGED <<user_conversations, page, badge, image, flight, lists>>

\* /setadlink tokens...; save_ok is whether save_json could write the file (a
\* failure is logged inside save_json and changes nothing else).
SetAd(u, tokens, save_ok) ==
    LET valid_links == SelectSeq(tokens, LAMBDA l : StartsWith(l, Http))
    IN  /\ IF Len(tokens) > 0 /\ Len(valid_links) > 0
           THEN /\ user_ad_links' =
                      [v \in DOMAIN user_ad_links \cup {u} |->
                          IF v = u THEN valid_links ELSE user_ad_links[v]]
                /\ out' = [Out("set_ad", u, u, "ad_links_saved") EXCEPT
                              !.shown = valid_links,
                              !.input = tokens,
                              !.net = IF save_ok THEN "ok" ELSE "save_error"]
           ELSE /\ UNCHANGED user_ad_links
                /\ out' = [Out("set_ad", u, u,
                               IF Len(tokens) > 0 THEN "invalid_links" ELSE "usage")
                           EXCEPT !.input = tokens]
        /\ UNCHANGED <<user_conversations, page, badge, image, flight, lists>>

\* /manual
ManualPostCmd(u) ==
    /\ user_conversations' = Store(u, Session(ManualDetails, "manual_title"))
    /\ out' = Out("manual_post_cmd", u, u, "ask_title")
    /\ UNCHANGED <<user_ad_links, page, badge, image, flight, lists>>

\* What TMDB answers for a details request that succeeds.
TmdbDetails == {Details(FALSE, TmdbTitle, TmdbOverview, PosterPath, BackdropPath)}

\* The value of `details` after get_tmdb_details
FetchedDetails(answer, body) ==
    IF FetchUrlGet(answer) = "dict" THEN body ELSE BytesDetails

\* The part of post_cmd and on_select after `details` is fetched: "not found"
\* for a falsy answer, else the session is stored and the title shown;
\* details.get raises on bytes, after the session is stored.  The exception
\* escapes post_cmd and is caught and logged in on_select.
ShowDetails(handler, u, answer, body, not_found, found) ==
    IF FetchUrlGet(answer) = "None"
    THEN /\ out' = [Out(handler, u, u, not_found) EXCEPT !.net = NetOf(answer)]
         /\ UNCHANGED user_conversations
    ELSE /\ user_conversations' = Store(u, Session(FetchedDetails(answer, body), "wait_lang"))
         /\ out' = IF FetchUrlGet(answer) = "dict"
                   THEN Out(handler, u, u, found)
                   ELSE [Out(handler, u, u, "none") EXCEPT
                            !.raised = (handler = "post_cmd"), !.net = NetOf(answer)]

\* /post <query>.  has_arg: the command has an argument.  find is the answer to
\* the IMDb find request and find_hit whether its JSON lists a result; details,
\* body the answer to the details request; search, hits those of the search.
PostCmd(u, has_arg, query, find, find_hit, details, body, search, hits) ==
    /\ IF ~has_arg
       THEN /\ out' = Out("post_cmd", u, u, "usage")
            /\ UNCHANGED user_conversations
       ELSE IF ExtractTmdbId(query) # "None"
       THEN IF ExtractTmdbId(query) = "imdb" /\ FetchUrlGet(find) # "dict"
            THEN \* data.get on None or bytes: AttributeError, nothing catches it
                 /\ out' = [Out("post_cmd", u, u, "processing") EXCEPT
                               !.raised = TRUE, !.net = NetOf(find)]
                 /\ UNCHANGED user_conversations
            ELSE IF ExtractTmdbId(query) = "imdb" /\ ~find_hit
            THEN /\ out' = Out("post_cmd", u, u, "imdb_not_found")
                 /\ UNCHANGED user_conversations
            ELSE ShowDetails("post_cmd", u, details, body,
                             "details_not_found_from_link", "found_ask_language")
       ELSE IF Len(SearchTmdb(search, hits)) = 0
            THEN /\ out' = [Out("post_cmd", u, u, "no_results_found") EXCEPT
                               !.net = NetOf(search)]
                 /\ UNCHANGED user_conversations
            ELSE /\ out' = Out("post_cmd", u, u, "select_content")
                 /\ UNCHANGED user_conversations
    /\ UNCHANGED <<user_ad_links, page, badge, image, flight, lists>>

\* A press on a "sel_<type>_<id>" button
OnSelect(u, details, body) ==
    /\ ShowDetails("on_select", u, details, body,
                   "details_not_found", "selected_ask_language")
    /\ UNCHANGED <<user_ad_links, page, badge, image, flight, lists>>

-----------------------------------------------------------------------------
(* Finalization *)

\* What generate_final_post meets outside the process: the answers generate_image
\* gets (env), the index random.choice draws (owner), what the re-upload of the
\* badged poster returns (upload: a URL or None) and whether sending the post
\* works (send_ok).
FinalInput(env, owner, upload, send_ok) ==
    [env |-> env, owner |-> owner, upload |-> upload, send_ok |-> send_ok]

\* The session after generate_final_post, for a session whose details are a dict
FinalizedConvo(uid, convo, fin) ==
    LET img == GenerateImage(convo.details, fin.env)
        details == IF Truthy(convo.details.badge_text) /\ img.img_io
                      /\ Truthy(fin.upload)
                   THEN [convo.details EXCEPT !.manual_poster_url = fin.upload]
                   ELSE convo.details
        html == GenerateHtmlCode(details, convo.links, AdLinksOf(uid), fin.owner)
    IN  [convo EXCEPT !.details = details, !.final = <<html>>]

\* upload_to_catbox_bytes was called for the badged poster and returned None
ReuploadFailed(convo, fin) ==
    /\ Truthy(convo.details.badge_text)
    /\ GenerateImage(convo.details, fin.env).img_io
    /\ ~Truthy(fin.upload)

\* generate_final_post(client, uid, message), run by `handler` for user u on the
\* session `convo` it has just written to (badge_text set).  A details object
\* that is no dict makes generate_image return None, None and then raises at
\* convo["details"].get, which nothing catches.
GenerateFinalPost(handler, u, uid, convo, fin) ==
    IF convo.details.kind # "dict"
    THEN /\ user_conversations' = Store(uid, convo)
         /\ out' = [Out(handler, u, uid, "generating") EXCEPT !.raised = TRUE]
    ELSE /\ user_conversations' = Store(uid, FinalizedConvo(uid, convo, fin))
         /\ out' = [Out(handler, u, uid,
                        IF ~fin.send_ok THEN "error_sending_post"
                        ELSE IF GenerateImage(convo.details, fin.env).img_io
                             THEN "post_photo" ELSE "post_text")
                    EXCEPT !.net = IF ReuploadFailed(convo, fin)
                                   THEN "upload_failed" ELSE "ok"]

-----------------------------------------------------------------------------
(* The conversation handler *)

\* What a free-text or photo message brings: its text (stripped; "" for a photo
\* without caption), whether it carries a photo, whether message.download()
\* works and what upload_to_catbox returns (a URL or None).
Message(text, photo, download_ok, img_url) ==
    [text |-> text, photo |-> photo, download_ok |-> download_ok, img_url |-> img_url]

\* The replies of text_handler that are plain state steps: new session and reply
Stepped(u, convo, reply) ==
    /\ user_conversations' = Store(u, convo)
    /\ out' = Out("text_handler", u, u, reply)

\* The same, for the steps of the link rounds: the text is kept with the reply
SteppedOn(u, convo, reply, text) ==
    /\ user_conversations' = Store(u, convo)
    /\ out' = [Out("text_handler", u, u, reply) EXCEPT !.input = <<text>>]

\* A bug that puts the new link in front of the list.
AddLink_InFront(convo, text) ==
    [convo EXCEPT !.links = <<[label |-> convo.temp_name, url |-> text]>> \o @]

\* convo["links"].append({"label": convo["temp_name"], "url": text})
AddLink(convo, text) ==
    [convo EXCEPT !.links = Append(@, [label |-> convo.temp_name, url |-> text])]

\* Writing convo["details"][key] when details is bytes: TypeError, uncaught,
\* before the state is written.
DetailsWriteRaises(u) ==
    /\ out' = [Out("text_handler", u, u, "none") EXCEPT !.raised = TRUE]
    /\ UNCHANGED user_conversations

\* text_handler(client, message)
TextHandler(u, m, fin) ==
    /\ IF ~HasSession(u)
       THEN /\ out' = Out("text_handler", u, u, "none")
            /\ UNCHANGED user_conversations
       ELSE LET convo == user_conversations[u]
                state == convo.state
            IN
            IF state = "manual_title"
            THEN Stepped(u, Enter([convo EXCEPT !.details.title = m.text], "manual_plot"),
                         "ask_plot")
            ELSE IF state = "manual_plot"
            THEN Stepped(u, Enter([convo EXCEPT !.details.overview = m.text], "manual_poster"),
                         "ask_poster")
            ELSE IF state = "manual_poster"
            THEN IF ~m.photo
                 THEN /\ out' = Out("text_handler", u, u, "send_a_photo")
                      /\ UNCHANGED user_conversations
                 ELSE IF ~m.download_ok
                 THEN /\ out' = Out("text_handler", u, u, "error")
                      /\ UNCHANGED user_conversations
                 ELSE IF Truthy(m.img_url)
                 THEN Stepped(u, Enter([convo EXCEPT !.details.manual_poster_url = m.img_url],
                                       "ask_links"),
                              "uploaded_ask_links")
                 ELSE /\ out' = [Out("text_handler", u, u, "upload_failed") EXCEPT
                                    !.net = "upload_failed"]
                      /\ UNCHANGED user_conversations
            ELSE IF state = "wait_lang"
            THEN IF convo.details.kind # "dict" THEN DetailsWriteRaises(u)
                 ELSE Stepped(u, Enter([convo EXCEPT !.details.custom_language = m.text],
                                       "wait_quality"),
                              "ask_quality")
            ELSE IF state = "wait_quality"
            THEN IF convo.details.kind # "dict" THEN DetailsWriteRaises(u)
                 ELSE Stepped(u, Enter([convo EXCEPT !.details.custom_quality = m.text],
                                       "ask_links"),
                              "ask_links")
            ELSE IF state = "wait_link_name"
            THEN SteppedOn(u, Enter([convo EXCEPT !.temp_name = m.text], "wait_link_url"),
                           "ask_url", m.text)
            ELSE IF state = "wait_link_url"
            THEN IF StartsWith(m.text, Http)
                 THEN IF convo.temp_name = Absent
                      THEN \* convo["temp_name"]: KeyError, uncaught
                           /\ out' = [Out("text_handler", u, u, "none") EXCEPT
                                         !.raised = TRUE, !.input = <<m.text>>]
                           /\ UNCHANGED user_conversations
                      ELSE SteppedOn(u, Enter(AddLink(convo, m.text), "ask_links"),
                                     "added_ask_links", m.text)
                 ELSE /\ out' = [Out("text_handler", u, u, "invalid_url") EXCEPT
                                    !.input = <<m.text>>]
                      /\ UNCHANGED user_conversations
            ELSE IF state = "wait_badge_text"
            THEN IF convo.details.kind # "dict" THEN DetailsWriteRaises(u)
                 ELSE GenerateFinalPost("text_handler", u, u,
                                        [convo EXCEPT !.details.badge_text = m.text], fin)
            ELSE \* "ask_links": no branch of the handler matches
                 /\ out' = Out("text_handler", u, u, "none")
                 /\ UNCHANGED user_conversations
    /\ UNCHANGED <<user_ad_links, page, badge, image, flight, lists>>

-----------------------------------------------------------------------------
(* Buttons *)

\* A press by user u on a "lnk_yes_<uid>" or "lnk_no_<uid>" button
LinkCb(u, action, uid) ==
    /\ IF uid # u
       THEN /\ out' = Out("link_cb", u, uid, "not_for_you")
            /\ UNCHANGED user_conversations
       ELSE IF ~HasSession(uid)
       THEN \* user_conversations[uid]: KeyError, uncaught
            /\ out' = [Out("link_cb", u, uid, "none") EXCEPT !.raised = TRUE]
            /\ UNCHANGED user_conversations
       ELSE IF action = "lnk_yes"
       THEN /\ user_conversations' = Store(uid, Enter(user_conversations[uid], "wait_link_name"))
            /\ out' = Out("link_cb", u, uid, "ask_button_name")
       ELSE /\ user_conversations' = Store(uid, Enter(user_conversations[uid], "wait_badge_text"))
            /\ out' = Out("link_cb", u, uid, "ask_badge")
    /\ UNCHANGED <<user_ad_links, page, badge, image, flight, lists>>

\* A press by user u on a "skip_badge_<uid>" button
SkipBadgeCb(u, uid, fin) ==
    /\ IF ~HasSession(uid)
       THEN /\ out' = Out("skip_badge_cb", u, uid, "none")
            /\ UNCHANGED user_conversations
       ELSE IF user_conversations[uid].details.kind # "dict"
       THEN \* item assignment on bytes: TypeError, uncaught
            /\ out' = [Out("skip_badge_cb", u, uid, "none") EXCEPT !.raised = TRUE]
            /\ UNCHANGED user_conversations
       ELSE GenerateFinalPost("skip_badge_cb", u, uid,
                [user_conversations[uid] EXCEPT !.details.badge_text = None], fin)
    /\ UNCHANGED <<user_ad_links, page, badge, image, flight, lists>>

\* A bug that attaches the file only when the request itself failed.
GetCodeReply_DropsUnrecognised(html, answer) ==
    LET link == CreatePasteLink(HtmlText(html), answer)
    IN  IF Truthy(link)
        THEN [reply |-> "code_ready", shown |-> <<link>>, doc |-> <<>>]
        ELSE IF answer = None
        THEN [reply |-> "file_attached", shown |-> <<>>, doc |-> Encode(HtmlText(html))]
        ELSE [reply |-> "none", shown |-> <<>>, doc |-> <<>>]

\* The answer of get_code for the stored html and the paste service's answer
GetCodeReply(html, answer) ==
    LET link == CreatePasteLink(HtmlText(html), answer)
    IN  IF Truthy(link)
        THEN [reply |-> "code_ready", shown |-> <<link>>, doc |-> <<>>]
        ELSE [reply |-> "file_attached", shown |-> <<>>, doc |-> Encode(HtmlText(html))]

\* A press by user u on a "get_code_<uid>" button
GetCode(u, uid, answer) ==
    /\ IF ~HasSession(uid) \/ (HasSession(uid) /\ user_conversations[uid].final = <<>>)
       THEN out' = Out("get_code", u, uid, "expired")
       ELSE LET r == GetCodeReply(user_conversations[uid].final[1], answer)
            IN  out' = [Out("get_code", u, uid, r.reply) EXCEPT
                           !.answer = answer, !.shown = r.shown, !.doc = r.doc]
    /\ UNCHANGED <<user_conversations, user_ad_links, page, badge, image, flight, lists>>

-----------------------------------------------------------------------------
(* Specification Spec: the bot, one handler run per step.  Inline keyboards stay *)
(* in the chat across sessions and across a restart of the process (which       *)
(* empties user_conversations, not the chat), so a press on any button the bot  *)
(* can emit is an input in every state.  Here each user presses the buttons   *)
(* that carry their own uid.                                                    *)

TitleText == <<"E_ACUTE">>
PlotText == <<"p">>
PlainText == <<"H", "i">>
LabelText == <<"W">>
UrlText == <<"h", "t", "t", "p", ":", "a">>
NotUrlText == <<"w", "w", "w">>
AdA == <<"h", "t", "t", "p", ":", "a">>
AdB == <<"h", "t", "t", "p", "s", ":", "b">>

SetAdInputs == {<<>>, <<NotUrlText>>, <<AdB, NotUrlText, AdA>>}

Queries == {[tmdb |-> "none", imdb |-> FALSE], [tmdb |-> "none", imdb |-> TRUE],
            [tmdb |-> "movie", imdb |-> FALSE], [tmdb |-> "tv", imdb |-> TRUE]}

SearchHit == <<[media_type |-> "person", id |-> 1], [media_type |-> "tv", id |-> 2]>>

SearchHits == {<<>>, <<[media_type |-> "person", id |-> 1]>>, SearchHit}

PostInput(has_arg, query, find, find_hit, details, body, search, hits) ==
    [has_arg |-> has_arg, query |-> query, find |-> find, find_hit |-> find_hit,
     details |-> details, body |-> body, search |-> search, hits |-> hits]

AnyBody == Details(FALSE, TmdbTitle, TmdbOverview, PosterPath, BackdropPath)

\* The /post messages and the answers they meet; an answer that is not asked
\* for is held fixed.
PostInputs ==
    {PostInput(FALSE, [tmdb |-> "none", imdb |-> FALSE], "json", FALSE, "json", AnyBody,
               "json", <<>>)}
    \cup {PostInput(TRUE, [tmdb |-> "movie", imdb |-> FALSE], "json", FALSE, d, b, "json", <<>>) :
             d \in GetAnswers, b \in TmdbDetails}
    \cup {PostInput(TRUE, [tmdb |-> "tv", imdb |-> TRUE], "json", FALSE, "json", AnyBody,
                    "json", <<>>)}
    \cup {PostInput(TRUE, [tmdb |-> "none", imdb |-> TRUE], f, FALSE, "json", AnyBody,
                    "json", <<>>) : f \in GetAnswers}
    \cup {PostInput(TRUE, [tmdb |-> "none", imdb |-> TRUE], "json", TRUE, d, AnyBody,
                    "json", <<>>) : d \in {"json", "timeout"}}
    \cup {PostInput(TRUE, [tmdb |-> "none", imdb |-> FALSE], "json", FALSE, "json", AnyBody,
                    "json", h) : h \in SearchHits}
    \cup {PostInput(TRUE, [tmdb |-> "none", imdb |-> FALSE], "json", FALSE, "json", AnyBody,
                    a, SearchHit) : a \in GetAnswers}

GoodPoster == ImageBytes(TRUE, 200, 250, <<Face(50, 100)>>)

FinalEnv(decodable) ==
    ImageEnv("ok", [GoodPoster EXCEPT !.decodable = decodable], "ok", TRUE,
             BadgeEnv("none", TRUE, 120, 50))

\* Every draw of the owner link among `owners` with nothing failing, and one
\* failure at a time: the poster not decoding, the re-upload failing, the post
\* not being sent.
FinalInputs(owners) ==
    {FinalInput(FinalEnv(TRUE), o, CatboxUrl, TRUE) : o \in owners}
    \cup {FinalInput(FinalEnv(FALSE), 1, CatboxUrl, TRUE),
          FinalInput(FinalEnv(TRUE), 1, None, TRUE),
          FinalInput(FinalEnv(TRUE), 1, CatboxUrl, FALSE)}

AnyFinal == FinalInput(FinalEnv(TRUE), 1, CatboxUrl, TRUE)

\* The messages user u may send in the state its session is in.
MessagesFor(u) ==
    IF ~HasSession(u) THEN {Message(PlainText, FALSE, TRUE, None)}
    ELSE LET state == user_conversations[u].state
         IN  CASE state = "manual_title" -> {Message(TitleText, FALSE, TRUE, None)}
               [] state = "manual_plot" -> {Message(PlotText, FALSE, TRUE, None)}
               [] state = "manual_poster" ->
                    {Message(<<>>, FALSE, TRUE, None), Message(<<>>, TRUE, FALSE, None),
                     Message(<<>>, TRUE, TRUE, None), Message(<<>>, TRUE, TRUE, CatboxUrl)}
               [] state = "wait_link_name" -> {Message(LabelText, FALSE, TRUE, None)}
               [] state = "wait_link_url" ->
                    {Message(NotUrlText, FALSE, TRUE, None)}
                    \cup (IF Len(user_conversations[u].links) < MaxLinks
                          THEN {Message(UrlText, FALSE, TRUE, None)} ELSE {})
               [] state = "wait_badge_text" -> {Message(BadgeText, FALSE, TRUE, None)}
               [] OTHER -> {Message(PlainText, FALSE, TRUE, None)}

\* The finalization inputs that matter to a message of u, to a press for uid
FinalsFor(u, finals) ==
    IF HasSession(u) /\ user_conversations[u].state = "wait_badge_text"
    THEN finals ELSE {AnyFinal}

FinalsForPress(uid, finals) == IF HasSession(uid) THEN finals ELSE {AnyFinal}


Init ==
    /\ user_conversations = EmptyDict
    /\ user_ad_links = EmptyDict
    /\ out = NoOut
    /\ flight = IdleFlight
    /\ lists = StoredLists
    /\ page = IdlePage
    /\ badge = IdleBadge
    /\ image = IdleImage

\* One handler run, with the inputs drawn from the given sets: the /post
\* inputs, the answers to a details request of a "sel_" press, the finalization
\* inputs, the paste service's answers and the /setadlink arguments.
Step(posts, selects, finals, pastes, ad_inputs) ==
    \/ \E u \in Posters : StartCmd(u)
    \/ \E u \in Posters : MySettingsCmd(u)
    \/ \E u \in Posters, tokens \in ad_inputs, save_ok \in BOOLEAN : SetAd(u, tokens, save_ok)
    \/ \E u \in Posters : ManualPostCmd(u)
    \/ \E u \in Posters, i \in posts :
          PostCmd(u, i.has_arg, i.query, i.find, i.find_hit, i.details, i.body,
                  i.search, i.hits)
    \/ \E u \in Posters, d \in selects, b \in TmdbDetails : OnSelect(u, d, b)
    \/ \E u \in Posters : \E m \in MessagesFor(u), fin \in FinalsFor(u, finals) :
          TextHandler(u, m, fin)
    \/ \E u \in Posters, action \in {"lnk_yes", "lnk_no"} : LinkCb(u, action, u)
    \/ \E u \in Posters : \E fin \in FinalsForPress(u, finals) : SkipBadgeCb(u, u, fin)
    \/ \E u \in Posters, answer \in pastes : GetCode(u, u, answer)

PasteLink == <<"h", "t", "t", "p", "s", ":", "/", "/", "dpaste.com", "/", "A", "\n">>

\* What the paste service answers: nothing (the request raises), an empty
\* body, an error page, a text that holds a dpaste.com link.
PasteAnswers == {None, <<>>, <<"<", "e", "r", "r", "o", "r">>, PasteLink}

\* Spec: every /post input, lookup answer, owner draw and /setadlink argument;
\* the paste service answers with a link.
Next == Step(PostInputs, GetAnswers, FinalInputs(DOMAIN OWNER_AD_LINKS), {PasteLink},
             SetAdInputs)

Spec == Init /\ [][Next]_vars

\* A /post with a TMDB link whose lookup succeeds
PostFound ==
    {PostInput(TRUE, [tmdb |-> "movie", imdb |-> FALSE], "json", FALSE, "json", AnyBody,
               "json", <<>>)}

\* SpecCode: the same handlers with every answer of the paste service; the
\* lookups succeed, the owner draw is the first link, the ad links the default.
NextCode == Step(PostFound, {"json"}, FinalInputs({1}), PasteAnswers, {<<>>})

SpecCode == Init /\ [][NextCode]_vars

-----------------------------------------------------------------------------
(* Specification SpecUsers: two users.  The first runs the whole dialogue with *)
(* lookups that succeed; the second sets and reads its own ad links and      *)
(* presses buttons, its own and those that carry the first user's uid.        *)

Others == Users \ Posters

\* Every draw of random.choice(OWNER_AD_LINKS), nothing failing
OwnerDraws == {FinalInput(FinalEnv(TRUE), o, CatboxUrl, TRUE) : o \in DOMAIN OWNER_AD_LINKS}

NextUsers ==
    \/ Step(PostFound, {"json"}, OwnerDraws, {PasteLink}, {<<AdA>>})
    \/ \E u \in Others, tokens \in SetAdInputs, save_ok \in BOOLEAN : SetAd(u, tokens, save_ok)
    \/ \E u \in Others : MySettingsCmd(u)
    \/ \E u \in Others, action \in {"lnk_yes", "lnk_no"}, uid \in Users : LinkCb(u, action, uid)
    \/ \E u \in Others, uid \in Users : \E fin \in FinalsForPress(uid, {AnyFinal}) :
          SkipBadgeCb(u, uid, fin)
    \/ \E u \in Others, uid \in Users : GetCode(u, uid, PasteLink)

SpecUsers == Init /\ [][NextUsers]_vars

-----------------------------------------------------------------------------
(* Specification SpecLinks: the link rounds of one session, with several      *)
(* button names and URLs, buttons pressed in any state.                       *)

SecondUrlText == <<"h", "t", "t", "p", "s", ":", "b">>

\* The messages of the link rounds: a name, no text at all (a photo), another
\* name; a text that is no URL and two URLs.
LinkMessagesFor(u) ==
    IF HasSession(u) /\ user_conversations[u].state = "wait_link_name"
    THEN {Message(LabelText, FALSE, TRUE, None), Message(<<>>, TRUE, TRUE, None),
          Message(PlainText, FALSE, TRUE, None)}
    ELSE IF HasSession(u) /\ user_conversations[u].state = "wait_link_url"
    THEN {Message(NotUrlText, FALSE, TRUE, None)}
         \cup (IF Len(user_conversations[u].links) < MaxLinks
               THEN {Message(UrlText, FALSE, TRUE, None),
                     Message(SecondUrlText, FALSE, TRUE, None)}
               ELSE {})
    ELSE MessagesFor(u)

NextLinks ==
    \/ \E u \in Posters : StartCmd(u)
    \/ \E u \in Posters, i \in PostFound :
          PostCmd(u, i.has_arg, i.query, i.find, i.find_hit, i.details, i.body,
                  i.search, i.hits)
    \/ \E u \in Posters : \E m \in LinkMessagesFor(u) : TextHandler(u, m, AnyFinal)
    \/ \E u \in Posters, action \in {"lnk_yes", "lnk_no"} : LinkCb(u, action, u)

SpecLinks == Init /\ [][NextLinks]_vars

-----------------------------------------------------------------------------
(* Specification SpecPage: the script of the generated HTML, run in a browser *)
(* on a page with one download button per link.                              *)

\* let timeLeft = 3
CountdownSeconds == 3

Digits == <<"0", "1", "2", "3", "4", "5", "6", "7", "8", "9">>

\* The attribute value setAttribute stores for a number: its decimal digits
RECURSIVE JsToString(_)
JsToString(n) ==
    IF n < 10 THEN <<Digits[n + 1]>>
    ELSE JsToString(n \div 10) \o <<Digits[(n % 10) + 1]>>

\* parseInt of a text of decimal digits
RECURSIVE ParseInt(_)
ParseInt(text) ==
    IF Len(text) = 1 THEN (CHOOSE d \in 0..9 : Digits[d + 1] = text[1])
    ELSE 10 * ParseInt(SubSeq(text, 1, Len(text) - 1))
         + (CHOOSE d \in 0..9 : Digits[d + 1] = text[Len(text)])

\* One "dl-item" as the template writes it: the button with data-url and
\* data-click-count="0", the timer hidden, the real link hidden with href="#".
\* disabled, pending: the click is being processed and its timeout is due;
\* ticking: the countdown interval runs.  opened lists what window.open was
\* called with by this button and clicks counts the clicks it took.
Button(url) ==
    [data_url |-> url, data_click_count |-> <<"0">>, disabled |-> FALSE,
     pending |-> FALSE, hidden |-> FALSE, timer_shown |-> FALSE,
     timeLeft |-> CountdownSeconds, ticking |-> FALSE,
     link_shown |-> FALSE, href |-> <<"#">>, opened |-> <<>>, clicks |-> 0]

\* The page of a generated post: the AD_LINKS array of the script and the
\* buttons of links_html.
PageOf(html) ==
    [AD_LINKS |-> html.AD_LINKS,
     buttons |-> [i \in DOMAIN html.links |-> Button(html.links[i].url)]]

\* A bug that reveals the link one click early.
ShowsAd_SkipsLast(count, ad_links) == count + 1 < Len(ad_links)

\* count < AD_LINKS.length
ShowsAd(count, ad_links) == count < Len(ad_links)

DownloadUrls == {<<"h", "t", "t", "p", ":", "1">>, <<"h", "t", "t", "p", ":", "2">>}

\* The download links of a post with 1..MaxButtons buttons
PageLinks ==
    {[i \in 1..k |-> [label |-> LabelText, url |-> urls[i]]] :
        k \in 1..MaxButtons, urls \in [1..MaxButtons -> DownloadUrls]}

\* The ad links a user can have configured: none saved (the default), or a
\* saved list.
PageAdLists == {DEFAULT_AD_LINKS, <<AdA>>, <<AdB, AdA>>}

InitPage ==
    /\ user_conversations = EmptyDict
    /\ user_ad_links = EmptyDict
    /\ out = NoOut
    /\ flight = IdleFlight
    /\ lists = StoredLists
    /\ badge = IdleBadge
    /\ image = IdleImage
    /\ \E links \in PageLinks, ad_links_list \in PageAdLists, owner \in DOMAIN OWNER_AD_LINKS :
          page = PageOf(GenerateHtmlCode(AnyBody, links, ad_links_list, owner))

\* btn.onclick: a disabled or hidden button takes no click.
Click(b) ==
    /\ ~page.buttons[b].disabled
    /\ ~page.buttons[b].hidden
    /\ page' = [page EXCEPT !.buttons[b].disabled = TRUE,
                            !.buttons[b].pending = TRUE,
                            !.buttons[b].clicks = @ + 1]
    /\ UNCHANGED <<user_conversations, user_ad_links, out, badge, image, flight, lists>>

\* The setTimeout callback, 1.5 s after the click
TimeoutFires(b) ==
    LET btn == page.buttons[b]
        count == ParseInt(btn.data_click_count)
    IN  /\ btn.pending
        /\ page' = IF ShowsAd(count, page.AD_LINKS)
                   THEN [page EXCEPT !.buttons[b].pending = FALSE,
                                     !.buttons[b].disabled = FALSE,
                                     !.buttons[b].opened = Append(@, page.AD_LINKS[count + 1]),
                                     !.buttons[b].data_click_count = JsToString(count + 1)]
                   ELSE [page EXCEPT !.buttons[b].pending = FALSE,
                                     !.buttons[b].disabled = FALSE,
                                     !.buttons[b].hidden = TRUE,
                                     !.buttons[b].timer_shown = TRUE,
                                     !.buttons[b].timeLeft = CountdownSeconds,
                                     !.buttons[b].ticking = TRUE]
        /\ UNCHANGED <<user_conversations, user_ad_links, out, badge, image, flight, lists>>

\* The setInterval callback, every second until the countdown is over
IntervalFires(b) ==
    LET btn == page.buttons[b]
        timeLeft == btn.timeLeft - 1
    IN  /\ btn.ticking
        /\ page' = IF timeLeft <= 0
                   THEN [page EXCEPT !.buttons[b].timeLeft = timeLeft,
                                     !.buttons[b].ticking = FALSE,
                                     !.buttons[b].timer_shown = FALSE,
                                     !.buttons[b].href = btn.data_url,
                                     !.buttons[b].link_shown = TRUE]
                   ELSE [page EXCEPT !.buttons[b].timeLeft = timeLeft]
        /\ UNCHANGED <<user_conversations, user_ad_links, out, badge, image, flight, lists>>

NextPage ==
    \/ \E b \in DOMAIN page.buttons : Click(b)
    \/ \E b \in DOMAIN page.buttons : TimeoutFires(b)
    \/ \E b \in DOMAIN page.buttons : IntervalFires(b)

SpecPage == InitPage /\ [][NextPage]_vars

-----------------------------------------------------------------------------
(* Specification SpecHtml: the ad-link lists around generate_html_code.  The  *)
(* list passed in is the object stored in user_ad_links or DEFAULT_AD_LINKS   *)
(* itself, so what the call does to it shows in the stored list.             *)

\* my_ad_links = user_ad_links.get(uid, DEFAULT_AD_LINKS);
\* generate_html_code(convo["details"], convo["links"], my_ad_links)
\* (lines 787-788), for a post with one download link.
CallGenerateHtmlCode(uid, owner) ==
    LET my_ad_links == AdLinksOf(uid)
        html == GenerateHtmlCode(AnyBody, <<[label |-> LabelText, url |-> UrlText]>>,
                                 my_ad_links, owner)
        passed == InjectOwner(my_ad_links, owner).ad_links_list
    IN  /\ page' = PageOf(html)
        /\ out' = Out("generate_final_post", uid, uid, "html")
        /\ IF uid \in DOMAIN user_ad_links
           THEN /\ user_ad_links' = [user_ad_links EXCEPT ![uid] = passed]
                /\ UNCHANGED lists
           ELSE /\ lists' = [lists EXCEPT !.DEFAULT_AD_LINKS = passed]
                /\ UNCHANGED user_ad_links
        /\ UNCHANGED <<user_conversations, badge, image, flight>>

NextHtml ==
    \/ \E u \in Users, tokens \in SetAdInputs \cup {<<AdA>>}, save_ok \in BOOLEAN :
          SetAd(u, tokens, save_ok)
    \/ \E uid \in Users, owner \in DOMAIN OWNER_AD_LINKS : CallGenerateHtmlCode(uid, owner)

SpecHtml == Init /\ [][NextHtml]_vars

-----------------------------------------------------------------------------
(* Specification SpecRace: the handlers of one user as asyncio tasks that      *)
(* interleave at their await points.  A session is a dict object: here        *)
(* user_conversations maps the uid to a reference into flight.heap, and a     *)
(* task of generate_final_post holds the reference it read before awaiting.   *)
(* flight.limit is the number of messages of the user that may be in flight:  *)
(* 1 when the delivery of updates is serialized.                              *)

\* The references a heap can hold: the stored session and one per task
Refs == 1..(MaxInFlight + 1)

\* A task of text_handler in state wait_badge_text: "replying" awaits
\* message.reply_text (line 740), "generating" awaits run_in_executor inside
\* generate_final_post (lines 780-783); convo is the reference read at line 776.
Task(uid, pc, convo) == [uid |-> uid, pc |-> pc, convo |-> convo]

\* Objects nothing refers to any more are collected.
Collect(heap, conversations, tasks) ==
    LET live == {conversations[u] : u \in DOMAIN conversations}
                \cup {tasks[i].convo : i \in DOMAIN tasks}
    IN  [r \in DOMAIN heap \cap live |-> heap[r]]

\* The sequence without its i-th element
Remove(seq, i) == SubSeq(seq, 1, i - 1) \o SubSeq(seq, i + 1, Len(seq))

\* A session at the ask-badge step of a /post dialogue
AskBadgeSession ==
    [Enter(Enter(Enter(Session([AnyBody EXCEPT !.custom_language = PlainText,
                                               !.custom_quality = PlainText],
                               "wait_lang"),
                       "wait_quality"), "ask_links"), "wait_badge_text")
     EXCEPT !.visited = <<"wait_lang", "wait_quality", "ask_links">>]

InitRace ==
    /\ user_conversations = [u \in Posters |-> 1]
    /\ user_ad_links = EmptyDict
    /\ out = NoOut
    /\ page = IdlePage
    /\ badge = IdleBadge
    /\ image = IdleImage
    /\ lists = StoredLists
    /\ \E limit \in 1..MaxInFlight :
          flight = [IdleFlight EXCEPT !.limit = limit,
                                      !.heap = [r \in {1} |-> AskBadgeSession],
                                      !.count = [r \in {1} |-> 0]]

\* A new message of the user is taken up
MayBegin == Len(flight.tasks) < flight.limit

\* user_conversations[uid] = {...}: a new dict object
RaceStore(u, convo) ==
    LET ref == CHOOSE r \in Refs :
                   /\ r \notin DOMAIN flight.heap
                   /\ \A q \in Refs : q \notin DOMAIN flight.heap => r <= q
        heap == [r \in DOMAIN flight.heap \cup {ref} |->
                    IF r = ref THEN convo ELSE flight.heap[r]]
        count == [r \in DOMAIN flight.count \cup {ref} |->
                    IF r = ref THEN 0 ELSE flight.count[r]]
    IN  /\ user_conversations' = Store(u, ref)
        /\ flight' = [flight EXCEPT
                         !.heap = Collect(heap, Store(u, ref), flight.tasks),
                         !.count = Collect(count, Store(u, ref), flight.tasks)]

\* /start
RaceStartCmd(u) ==
    /\ MayBegin
    /\ user_conversations' = Pop(u)
    /\ flight' = [flight EXCEPT
                     !.heap = Collect(@, Pop(u), flight.tasks),
                     !.count = Collect(@, Pop(u), flight.tasks)]
    /\ UNCHANGED <<user_ad_links, out, page, badge, image, lists>>

\* /post <tmdb link>, the lookup succeeding
RacePostCmd(u) ==
    /\ MayBegin
    /\ RaceStore(u, Session(AnyBody, "wait_lang"))
    /\ UNCHANGED <<user_ad_links, out, page, badge, image, lists>>

\* /manual
RaceManualPostCmd(u) ==
    /\ MayBegin
    /\ RaceStore(u, Session(ManualDetails, "manual_title"))
    /\ UNCHANGED <<user_ad_links, out, page, badge, image, lists>>

\* A press on "lnk_no_<u>" by u ("Finish"); KeyError without a session
RaceLinkCb(u) ==
    /\ MayBegin
    /\ IF HasSession(u)
       THEN flight' = [flight EXCEPT !.heap[user_conversations[u]] =
                                         Enter(@, "wait_badge_text")]
       ELSE UNCHANGED flight
    /\ UNCHANGED <<user_conversations, user_ad_links, out, page, badge, image, lists>>

\* text_handler up to its first await: with a session in wait_badge_text the
\* badge text is written and the reply awaited; otherwise the handler returns
\* (the other states take no part here).
RaceBadgeReply(u) ==
    /\ MayBegin
    /\ HasSession(u)
    /\ flight.heap[user_conversations[u]].state = "wait_badge_text"
    /\ flight.count[user_conversations[u]] < MaxFinalizations
    /\ flight' = [flight EXCEPT
                     !.heap[user_conversations[u]].details.badge_text = BadgeText,
                     !.tasks = Append(@, Task(u, "replying", 0))]
    /\ UNCHANGED <<user_conversations, user_ad_links, out, page, badge, image, lists>>

\* generate_final_post up to its first await: "Session expired" without a
\* session, else convo = user_conversations[uid] and the worker thread is awaited.
RaceEnterGenerate(t) ==
    LET task == flight.tasks[t]
    IN  /\ task.pc = "replying"
        /\ flight' = IF HasSession(task.uid)
                     THEN [flight EXCEPT
                              !.tasks[t] = Task(task.uid, "generating",
                                                user_conversations[task.uid])]
                     ELSE [flight EXCEPT !.tasks = Remove(@, t)]
        /\ UNCHANGED <<user_conversations, user_ad_links, out, page, badge, image, lists>>

\* generate_final_post after its awaits: convo["final"] is written to the
\* object read before them.  orphaned: that object is no longer the one stored
\* for the user; twice: it had been finalized before.
RaceResume(t, fin) ==
    LET task == flight.tasks[t]
        ref == task.convo
        tasks == Remove(flight.tasks, t)
        heap == [flight.heap EXCEPT ![ref] = FinalizedConvo(task.uid, @, fin)]
        count == [flight.count EXCEPT ![ref] = @ + 1]
        stored == HasSession(task.uid) /\ user_conversations[task.uid] = ref
    IN  /\ task.pc = "generating"
        /\ flight' = [flight EXCEPT
                         !.tasks = tasks,
                         !.heap = Collect(heap, user_conversations, tasks),
                         !.count = Collect(count, user_conversations, tasks),
                         !.orphaned = @ \/ ~stored,
                         !.twice = @ \/ count[ref] >= 2]
        /\ UNCHANGED <<user_conversations, user_ad_links, out, page, badge, image, lists>>

NextRace ==
    \/ \E u \in Posters : RaceStartCmd(u)
    \/ \E u \in Posters : RacePostCmd(u)
    \/ \E u \in Posters : RaceManualPostCmd(u)
    \/ \E u \in Posters : RaceLinkCb(u)
    \/ \E u \in Posters : RaceBadgeReply(u)
    \/ \E t \in DOMAIN flight.tasks : RaceEnterGenerate(t)
    \/ \E t \in DOMAIN flight.tasks : RaceResume(t, AnyFinal)

SpecRace == InitRace /\ [][NextRace]_vars

-----------------------------------------------------------------------------
(* Properties *)

\* The detector ran to the end: no call raised and the model file exists.
DetectorRan == badge.env.fail = "none" /\ badge.env.model_exists

\* B: the largest y+h over the detected faces.
FaceBottoms == {badge.img.faces[i].y + badge.img.faces[i].h : i \in DOMAIN badge.img.faces}
LowestBottom == CHOOSE b \in FaceBottoms : \A c \in FaceBottoms : c <= b

\* C6: with at least one face detected, get_smart_badge_position returns B+40 when
\* B+40 <= height-130 and the fixed offset 80 otherwise, B being the largest y+h
\* over all detected faces whatever their order or size.
C6_OffsetBelowLowestFace ==
    (badge.pos # -1 /\ DetectorRan /\ Len(badge.img.faces) > 0) =>
        badge.pos = IF LowestBottom + 40 <= badge.img.height - 130
                    THEN LowestBottom + 40 ELSE 80

\* C6 witness: two faces, the lowest one neither first nor largest, room below it.
C6_Witness ==
    /\ badge.pos # -1 /\ DetectorRan
    /\ Len(badge.img.faces) = 2
    /\ badge.img.faces[1].h > badge.img.faces[2].h
    /\ badge.img.faces[1].y + badge.img.faces[1].h
          < badge.img.faces[2].y + badge.img.faces[2].h
    /\ badge.pos = badge.img.faces[2].y + badge.img.faces[2].h + 40

\* The rows a..b and c..d share a row.
RowsOverlap(a, b, c, d) == a < d /\ c < b

\* C7: whenever a face is detected and the badge is drawn, the badge box (rows
\* pos_y .. pos_y+box_h) does not overlap the rows fy .. fy+fh of the lowest
\* detected face, the near-top fallback offset included.
C7_BadgeAvoidsLowestFace ==
    (badge.drawn /\ badge.img.decodable /\ DetectorRan /\ Len(badge.img.faces) > 0) =>
        \A i \in DOMAIN badge.img.faces :
            LET f == badge.img.faces[i]
                box == badge.result.box[1]
            IN  f.y + f.h = LowestBottom => ~RowsOverlap(box.y0, box.y1, f.y, f.y + f.h)

\* C8 as claimed: on detector failure (model file missing, or conversion/detection
\* raising) get_smart_badge_position returns one constant offset, the same for
\* every poster height and for both kinds of failure.
C8_ConstantOffsetOnFailure ==
    (badge.pos # -1 /\ ~DetectorRan) => badge.pos = 200

\* C8 as amended: a raising conversion or detection gives the constant 200 whatever
\* the image; a missing model file (nothing raising before the check) gives the
\* proportional offset floor(0.40 * height) of the no-face case.
C8_FallbackOffsets ==
    badge.pos # -1 =>
        /\ badge.env.fail = "convert" => badge.pos = 200
        /\ (badge.env.fail = "detect" /\ badge.env.model_exists) => badge.pos = 200
        /\ (badge.env.fail # "convert" /\ ~badge.env.model_exists) =>
               badge.pos = (2 * badge.img.height) \div 5

\* C8 witness: the model file is missing and the offset follows the poster height.
C8_Witness ==
    /\ badge.pos # -1
    /\ ~badge.env.model_exists /\ badge.env.fail = "none"
    /\ badge.pos = 100 /\ badge.img.height = 250

PosterFailed == image.env.poster_fetch = "error" \/ ~image.env.poster.decodable

HasPoster == Truthy(image.data.manual_poster_url) \/ Truthy(image.data.poster_path)

\* The record has a backdrop that generate_image fetches, and the fetch or the
\* decoding of it fails.
BackdropFailed ==
    /\ Truthy(image.data.backdrop_path) /\ ~image.data.is_manual
    /\ (image.env.backdrop_fetch = "error" \/ ~image.env.backdrop_decodable)

PostSent == {"post_photo", "post_text"}

\* C1: when generate_final_post completes for a user whose session is at the
\* ask-badge step (from a badge text reply or from the skip-badge button), that
\* user has no session afterwards: no conversation state and no media record.
C1_IdleAfterFinalize ==
    [][\A u \in Users :
          (/\ HasSession(u) /\ user_conversations[u].state = "wait_badge_text"
           /\ out'.handler \in {"text_handler", "skip_badge_cb"}
           /\ out'.target = u /\ out'.reply \in PostSent)
          => u \notin DOMAIN user_conversations']_vars

\* First position of a state in the order a session entered its states; 0 if never
FirstEntry(visited, state) ==
    IF \E i \in DOMAIN visited : visited[i] = state
    THEN CHOOSE i \in DOMAIN visited : visited[i] = state
    ELSE 0

\* C2: a session that has been in ask_links was in wait_lang and then in
\* wait_quality before it entered ask_links for the first time, sessions started
\* by /manual included.
C2_LanguageQualityBeforeLinks ==
    \A u \in DOMAIN user_conversations :
        LET visited == user_conversations[u].visited
        IN  FirstEntry(visited, "ask_links") > 0 =>
                /\ 0 < FirstEntry(visited, "wait_lang")
                /\ FirstEntry(visited, "wait_lang") < FirstEntry(visited, "wait_quality")
                /\ FirstEntry(visited, "wait_quality") < FirstEntry(visited, "ask_links")

\* C3: an lnk_yes or lnk_no press that reaches a session which is not in
\* ask_links leaves the state of that session unchanged.
C3_LinkButtonOnlyInAskLinks ==
    [][\A u \in Users :
          (/\ out'.handler = "link_cb" /\ out'.target = u /\ out'.reply # "not_for_you"
           /\ HasSession(u) /\ user_conversations[u].state # "ask_links")
          => (/\ u \in DOMAIN user_conversations'
              /\ user_conversations'[u].state = user_conversations[u].state)]_vars

\* utf-8 decoding of a byte sequence to code points
RECURSIVE Utf8Decode(_)
Utf8Decode(bytes) ==
    IF bytes = <<>> THEN <<>>
    ELSE LET b == bytes[1]
             n == IF b < 128 THEN 1 ELSE IF b < 224 THEN 2 ELSE IF b < 240 THEN 3 ELSE 4
             lead == IF n = 1 THEN b ELSE IF n = 2 THEN b - 192
                     ELSE IF n = 3 THEN b - 224 ELSE b - 240
             cont(i) == bytes[i] - 128
             cp == IF n = 1 THEN lead
                   ELSE IF n = 2 THEN lead * 64 + cont(2)
                   ELSE IF n = 3 THEN lead * 4096 + cont(2) * 64 + cont(3)
                   ELSE lead * 262144 + cont(2) * 4096 + cont(3) * 64 + cont(4)
         IN  <<cp>> \o Utf8Decode(SubSeq(bytes, n + 1, Len(bytes)))

\* The code points of a text
CodePoints(text) == [i \in DOMAIN text |-> Ord(text[i])]

\* The paste service failed: the request raised, or the answer holds no
\* dpaste.com link.
PasteFailed(answer) == answer = None \/ ~ContainsToken(answer, "dpaste.com")

\* get_code has just answered for a session that holds final HTML
CodeAnswered ==
    /\ out.handler = "get_code" /\ out.reply # "expired"
    /\ HasSession(out.target) /\ user_conversations[out.target].final # <<>>

\* C4: when get_code answers for a session that holds final HTML, a failed paste
\* gives a file attachment whose bytes decode as UTF-8 to exactly the stored
\* HTML, and in every case exactly one of a paste-link reply and a file
\* attachment is produced.
C4_FileAttachedOnPasteFailure ==
    CodeAnswered =>
        LET html == HtmlText(user_conversations[out.target].final[1])
        IN  /\ PasteFailed(out.answer) =>
                  /\ out.reply = "file_attached"
                  /\ out.doc # <<>>
                  /\ \A i \in DOMAIN out.doc : out.doc[i] \in 0..255
                  /\ Utf8Decode(out.doc) = CodePoints(html)
            /\ (out.reply = "code_ready" /\ out.shown # <<>> /\ out.doc = <<>>)
               \/ (out.reply = "file_attached" /\ out.shown = <<>> /\ out.doc # <<>>)

\* C4 witness: the paste service answered with an error page and the file was
\* attached, for a post whose HTML holds characters of 2, 3 and 4 bytes.
C4_Witness ==
    /\ CodeAnswered
    /\ out.answer # None /\ out.answer # <<>> /\ PasteFailed(out.answer)
    /\ out.reply = "file_attached"
    /\ Len(out.doc) > Len(HtmlText(user_conversations[out.target].final[1])) + 5
    /\ user_conversations[out.target].details.title = TitleText
    /\ Len(user_conversations[out.target].links) > 0

\* C5: on the generated page the operator-injected link is AD_LINKS[0]; every
\* button has opened the entries of AD_LINKS in index order, one per processed
\* click, counted by its own counter; and its real link is hidden with href "#"
\* until the button was clicked Len(AD_LINKS)+1 times, each entry was opened and
\* the countdown started by the last click has reached 0, when it is shown with
\* the button's data-url as href.
C5_RevealAfterAllAds ==
    page.buttons # <<>> =>
        /\ page.AD_LINKS # <<>>
        /\ \E o \in DOMAIN OWNER_AD_LINKS : page.AD_LINKS[1] = OWNER_AD_LINKS[o]
        /\ \A b \in DOMAIN page.buttons :
              LET btn == page.buttons[b]
                  count == ParseInt(btn.data_click_count)
              IN  /\ count <= Len(page.AD_LINKS)
                  /\ btn.opened = SubSeq(page.AD_LINKS, 1, count)
                  /\ btn.clicks = count + (IF btn.pending THEN 1 ELSE 0)
                                        + (IF btn.hidden THEN 1 ELSE 0)
                  /\ btn.link_shown =>
                        /\ btn.clicks = Len(page.AD_LINKS) + 1
                        /\ btn.opened = page.AD_LINKS
                        /\ btn.timeLeft = 0
                        /\ btn.href = btn.data_url
                  /\ ~btn.link_shown => btn.href = <<"#">>
                  /\ btn.clicks < Len(page.AD_LINKS) + 1 => ~btn.link_shown /\ ~btn.ticking

\* C5 witness: on a page with three ad links and two buttons, one button shows
\* its real link after four clicks while the other has opened one ad.
C5_Witness ==
    /\ Len(page.AD_LINKS) = 3 /\ Len(page.buttons) = 2
    /\ \E b, c \in DOMAIN page.buttons :
          /\ b # c
          /\ page.buttons[b].link_shown /\ page.buttons[b].clicks = 4
          /\ page.buttons[b].href = page.buttons[b].data_url
          /\ page.buttons[c].clicks = 1 /\ page.buttons[c].opened = <<page.AD_LINKS[1]>>
          /\ ~page.buttons[c].link_shown

\* The replies that tell the user that nothing was found
NotFoundReplies ==
    {"imdb_not_found", "details_not_found_from_link", "details_not_found", "no_results_found"}

\* C10: a run of post_cmd or on_select that meets a network failure of the
\* metadata service answers with a "not found" message, lets no exception
\* escape and creates no session.
C10_NotFoundOnNetworkFailure ==
    [][(out'.handler \in {"post_cmd", "on_select"} /\ out'.net = "network_failure")
       => (/\ out'.reply \in NotFoundReplies
           /\ ~out'.raised
           /\ user_conversations' = user_conversations)]_vars

\* The replies that tell the user that a file-host upload failed
UploadFailureReplies == {"upload_failed"}

\* C11: a handler run in which a file-host upload failed (the manual poster
\* upload or the re-upload of the badged poster) reports the failure, leaves the
\* state of the user's session as it was and emits no final post.
C11_UploadFailureStalls ==
    [][\A u \in Users :
          (out'.net = "upload_failed" /\ out'.target = u /\ HasSession(u))
          => (/\ out'.reply \in UploadFailureReplies
              /\ u \in DOMAIN user_conversations'
              /\ user_conversations'[u].state = user_conversations[u].state
              /\ user_conversations'[u].final = user_conversations[u].final)]_vars

\* C12: while at most one message of a user is in flight, no resumed
\* generate_final_post writes 'final' to an object that is no longer the one
\* stored for the user, and no session object is finalized twice.
C12_SerializedNeverCorrupts ==
    flight.limit = 1 => (~flight.orphaned /\ ~flight.twice)

\* C12 witness: with two messages in flight a /start, /post or /manual overtook
\* a generate_final_post, whose 'final' went to an object no longer stored.
C12_Witness ==
    /\ flight.limit = 2
    /\ flight.orphaned
    /\ flight.tasks = <<>>

\* The tokens that start with "http", in the order given
RECURSIVE HttpTokens(_)
HttpTokens(tokens) ==
    IF tokens = <<>> THEN <<>>
    ELSE (IF Len(Head(tokens)) >= 4 /\ SubSeq(Head(tokens), 1, 4) = <<"h", "t", "t", "p">>
          THEN <<Head(tokens)>> ELSE <<>>) \o HttpTokens(Tail(tokens))

\* The last handler run finalized a post for user u
Finalized(u) ==
    /\ out.handler \in {"text_handler", "skip_badge_cb"} /\ out.target = u
    /\ out.reply \in PostSent \cup {"error_sending_post"}
    /\ HasSession(u) /\ user_conversations[u].final # <<>>

\* C13: a /setadlink whose settings file cannot be written still answers and
\* makes user_ad_links[uid] exactly the supplied tokens that start with "http",
\* in the order given, leaving the entries of the other users as they were;
\* /mysettings shows and a finalization uses the links held in memory.
C13_SaveFailureKeepsMemory ==
    /\ [][(out'.handler = "set_ad" /\ out'.net = "save_error") =>
            LET u == out'.user
            IN  /\ ~out'.raised /\ out'.reply = "ad_links_saved"
                /\ u \in DOMAIN user_ad_links'
                /\ user_ad_links'[u] = HttpTokens(out'.input)
                /\ DOMAIN user_ad_links' = DOMAIN user_ad_links \cup {u}
                /\ \A v \in DOMAIN user_ad_links \ {u} : user_ad_links'[v] = user_ad_links[v]
                /\ user_conversations' = user_conversations]_vars
    /\ [](out.handler = "mysettings_cmd" =>
             out.shown = IF out.user \in DOMAIN user_ad_links
                         THEN user_ad_links[out.user] ELSE DEFAULT_AD_LINKS)
    /\ [](\A u \in Users : Finalized(u) =>
             Tail(user_conversations[u].final[1].AD_LINKS)
                = IF u \in DOMAIN user_ad_links THEN user_ad_links[u] ELSE DEFAULT_AD_LINKS)

\* C13 witness: the file could not be written for "https:b www http:a"; the
\* user's entry is the two links, another user's entry is still there.
C13_Witness ==
    /\ out.handler = "set_ad" /\ out.net = "save_error"
    /\ out.input = <<AdB, NotUrlText, AdA>>
    /\ user_ad_links[out.user] = <<AdB, AdA>>
    /\ \E v \in DOMAIN user_ad_links : v # out.user

\* The handlers that leave a session in place: they neither create nor remove one
KeepsSession == {"text_handler", "link_cb", "skip_badge_cb", "get_code", "set_ad",
                 "mysettings_cmd"}

\* C14: the links list of a session changes only by a url reply that starts with
\* "http": that reply appends the pair of the name given in the link-name step
\* before it and the url, after the pairs already there; a name reply only sets
\* the name, and a url reply that does not start with "http" leaves the list
\* and the state wait_link_url as they were.
C14_LinksAreTheCompletedRounds ==
    [][\A u \in Users :
          (HasSession(u) /\ out'.handler \in KeepsSession /\ out'.target = u) =>
             LET convo == user_conversations[u]
                 after == user_conversations'[u]
                 by_text == out'.handler = "text_handler"
                 text == out'.input[1]
                 is_url == Len(text) >= 4 /\ SubSeq(text, 1, 4) = <<"h", "t", "t", "p">>
             IN  /\ u \in DOMAIN user_conversations'
                 /\ (by_text /\ convo.state = "wait_link_name") =>
                        /\ after.temp_name = text /\ after.links = convo.links
                        /\ after.state = "wait_link_url"
                 /\ (by_text /\ convo.state = "wait_link_url" /\ is_url) =>
                        /\ after.links = convo.links \o <<[label |-> convo.temp_name,
                                                            url |-> text]>>
                        /\ after.state = "ask_links"
                        /\ ~out'.raised
                 /\ (by_text /\ convo.state = "wait_link_url" /\ ~is_url) =>
                        after.links = convo.links /\ after.state = "wait_link_url"
                 /\ ~(by_text /\ convo.state = "wait_link_url") => after.links = convo.links
                 /\ ~(by_text /\ convo.state = "wait_link_name") =>
                        after.temp_name = convo.temp_name]_vars

\* C14 witness: two completed rounds with different names and URLs; the list
\* holds the two pairs in the order they were entered.
C14_Witness ==
    \E u \in DOMAIN user_conversations :
        /\ user_conversations[u].links = <<[label |-> PlainText, url |-> SecondUrlText],
                                           [label |-> LabelText, url |-> UrlText]>>
        /\ user_conversations[u].state = "ask_links"
        /\ out.reply = "added_ask_links"

\* The overview generate_image reads: "" when the record has none
DrawnOverview == IF image.data.overview = Absent THEN <<>> ELSE image.data.overview

\* ceil(L/80)
CeilDiv80(L) == CHOOSE n \in 0..L : 80 * n >= L /\ (n = 0 \/ 80 * (n - 1) < L)

\* C15: for an overview of length L generate_image draws min(ceil(L/80), 6)
\* lines, none for L = 0, the i-th line holding the characters 80(i-1)+1 .. 80i
\* of the overview (up to its end).
C15_SynopsisLines ==
    (image.called /\ image.result.img_io) =>
        LET L == Len(DrawnOverview)
            lines == image.result.canvas.lines
            n == IF CeilDiv80(L) < 6 THEN CeilDiv80(L) ELSE 6
        IN  /\ Len(lines) = n
            /\ \A i \in 1..n :
                  /\ Len(lines[i]) = IF 80 * i <= L THEN 80 ELSE L - 80 * (i - 1)
                  /\ \A j \in 1..Len(lines[i]) : lines[i][j] = DrawnOverview[80 * (i - 1) + j]

\* C15 witness: an overview of 561 characters is drawn as six lines of 80, the
\* last ending with its 480th character.
C15_Witness ==
    /\ image.called /\ image.result.img_io
    /\ Len(DrawnOverview) = 561
    /\ Len(image.result.canvas.lines) = 6
    /\ Len(image.result.canvas.lines[6]) = 80
    /\ image.result.canvas.lines[6][80] = DrawnOverview[480]

\* The handlers of the callback buttons whose payload names a user
ButtonHandlers == {"link_cb", "skip_badge_cb", "get_code"}

\* C16: a press on a button whose payload names another user than the presser
\* has no effect on the named user: the sessions stay as they were, no post is
\* finalized and neither a paste link nor a file of the named user's HTML is sent.
C16_OnlyOwnerPresses ==
    [][(out'.handler \in ButtonHandlers /\ out'.user # out'.target) =>
          /\ user_conversations' = user_conversations
          /\ out'.reply \notin PostSent \cup {"code_ready", "file_attached"}
          /\ out'.shown = <<>> /\ out'.doc = <<>>]_vars

\* The handlers that act on a session that is already there
SessionHandlers == {"start_cmd", "text_handler", "link_cb", "skip_badge_cb", "get_code"}

\* C17: a handler run for a user who has no session leaves user_conversations
\* as it was and lets no exception escape.
C17_IdleUserHandledQuietly ==
    [][(out'.handler \in SessionHandlers /\ ~HasSession(out'.target)) =>
          (user_conversations' = user_conversations /\ ~out'.raised)]_vars

\* C18: DEFAULT_AD_LINKS and OWNER_AD_LINKS always hold what they held at the
\* start; a call of generate_html_code leaves every user_ad_links entry as it
\* was, and the AD_LINKS array it writes is one member of OWNER_AD_LINKS
\* followed by the user's stored links, or by the defaults when the user has
\* none, in their stored order.
C18_AdListsNotMutated ==
    /\ [](lists = StoredLists)
    /\ [][out'.handler = "generate_final_post" =>
            LET uid == out'.target
            IN  /\ user_ad_links' = user_ad_links
                /\ \E o \in DOMAIN OWNER_AD_LINKS : page'.AD_LINKS[1] = OWNER_AD_LINKS[o]
                /\ Tail(page'.AD_LINKS)
                      = IF uid \in DOMAIN user_ad_links THEN user_ad_links[uid]
                        ELSE DEFAULT_AD_LINKS
                /\ Len(page'.AD_LINKS)
                      = 1 + Len(IF uid \in DOMAIN user_ad_links THEN user_ad_links[uid]
                                ELSE DEFAULT_AD_LINKS)]_vars

\* C18 witness: a page was generated for a user with two stored links, drawing
\* the second owner link, while another user has no entry; the stored lists are
\* as before.
C18_Witness ==
    /\ out.handler = "generate_final_post"
    /\ out.target \in DOMAIN user_ad_links
    /\ user_ad_links[out.target] = <<AdB, AdA>>
    /\ page.AD_LINKS = <<OWNER_AD_LINKS[2], AdB, AdA>>
    /\ \E v \in Users : v \notin DOMAIN user_ad_links
    /\ lists.DEFAULT_AD_LINKS = DEFAULT_AD_LINKS

=============================================================================
